---- MODULE Spec2Model ----
(***************************************************************************)
(* Model of bokeh-app/monthly/main.py: the memoised dataset fetch          *)
(* (download_and_extract_data under functools.lru_cache), the seasonal     *)
(* aggregation and the ensemble statistics computed inside                 *)
(* SeaIceAnalysis.update_plot, the OSISAF baseline loaded in __init__, and *)
(* the figure that update_plot fills.                                      *)
(***************************************************************************)
EXTENDS Integers, Sequences, FiniteSets, TLC

(***************************************************************************)
(* Bounds of the model.                                                    *)
(***************************************************************************)
\* lru_cache(maxsize=128) scaled down so that evictions happen.
maxsize == 2
\* Number of parameter changes (update cycles after the initial one).
MaxChanges == 3
\* Calendar years covered by the series drawn for the aggregator and for the
\* ensemble statistics.
NumYears == 3
\* Ensemble members combined in the statistics specification.
MaxMembers == 2

FirstYear == 2015

\* Python's None, the absence of a key, and the absence of a stored result.
None == [kind |-> "None"]

NoKey == <<>>

Absent == [kind |-> "Absent"]

(***************************************************************************)
(* Selection universe (the param objects), scaled down.                    *)
(***************************************************************************)
variable_mapping == [SeaIceArea |-> "siarean", SeaIceExtent |-> "siextentn"]

ModelObjects == <<"NorESM2-LM_sea_ice", "MIROC6_sea_ice">>

ssp_scenarios == <<"ssp126", "ssp585">>

EnsembleObjects == <<"r1i1p1f1", "r2i1p1f1">>

SeasonObjects == <<"DJF", "JJA">>

season_to_months ==
  [DJF |-> <<12, 1, 2>>, MAM |-> <<3, 4, 5>>, JJA |-> <<6, 7, 8>>, SON |-> <<9, 10, 11>>]

(***************************************************************************)
(* Helpers on sequences and sets.                                          *)
(***************************************************************************)
Range(s) == {s[i] : i \in DOMAIN s}

IndexOf(s, x) == IF x \in Range(s) THEN CHOOSE i \in DOMAIN s : s[i] = x ELSE 0

\* The subsequence of `order` whose elements are in S (a ListSelector value
\* lists its selected objects in the order of the widget's options).
SelectIn(order, S) == SelectSeq(order, LAMBDA x : x \in S)

RECURSIVE SortedInts(_)
SortedInts(S) ==
  IF S = {} THEN <<>>
  ELSE LET m == CHOOSE x \in S : \A y \in S : x <= y
       IN <<m>> \o SortedInts(S \ {m})

RECURSIVE SumOver(_, _)
SumOver(f, S) ==
  IF S = {} THEN 0
  ELSE LET x == CHOOSE y \in S : TRUE IN f[x] + SumOver(f, S \ {x})

(***************************************************************************)
(* Exact rationals <<n, d>>, d > 0, in lowest terms: the means that numpy  *)
(* computes in floating point.                                             *)
(***************************************************************************)
Abs(x) == IF x < 0 THEN -x ELSE x

RECURSIVE Gcd(_, _)
Gcd(a, b) == IF b = 0 THEN a ELSE Gcd(b, a % b)

Rat(n, d) ==
  LET g == Gcd(Abs(n), d) IN IF g = 0 THEN <<0, 1>> ELSE <<n \div g, d \div g>>

RatOfInt(n) == <<n, 1>>

RatAdd(p, q) == Rat(p[1] * q[2] + q[1] * p[2], p[2] * q[2])

RatDivInt(p, k) == Rat(p[1], p[2] * k)

RatLeq(p, q) == p[1] * q[2] <= q[1] * p[2]

RatMin(S) == CHOOSE p \in S : \A q \in S : RatLeq(p, q)

RatMax(S) == CHOOSE p \in S : \A q \in S : RatLeq(q, p)

RECURSIVE RatSumSeq(_)
RatSumSeq(s) == IF s = <<>> THEN <<0, 1>> ELSE RatAdd(Head(s), RatSumSeq(Tail(s)))

(***************************************************************************)
(* Raw series (xr.DataArray): time is the sequence of <<year, month>>      *)
(* instants, values the observations, coords the coordinates attached to   *)
(* the array besides time.                                                 *)
(***************************************************************************)
TimeKey(t) == t[1] * 12 + t[2]

RECURSIVE SortedTimes(_)
SortedTimes(S) ==
  IF S = {} THEN <<>>
  ELSE LET m == CHOOSE x \in S : \A y \in S : TimeKey(x) <= TimeKey(y)
       IN <<m>> \o SortedTimes(S \ {m})

\* da.coords['year'] = da.time.dt.year ; da.coords['month'] = da.time.dt.month
\* (an in-place assignment on the array object).
AssignCoords(da) == [da EXCEPT !.coords = @ \cup {"year", "month"}]

\* The aggregation with the grouping done on the whole array instead of the
\* selection: every year of the array gets a value, a placeholder when none
\* of its months is in the season.
GroupedMeanOfAllYears(da, months) ==
  LET sel    == {i \in DOMAIN da.time : da.time[i][2] \in Range(months)}
      years  == SortedInts({da.time[i][1] : i \in DOMAIN da.time})
      grp(y) == {i \in sel : da.time[i][1] = y}
  IN [year   |-> years,
      values |-> [n \in DOMAIN years |->
                    IF grp(years[n]) = {} THEN <<0, 1>>
                    ELSE Rat(SumOver(da.values, grp(years[n])), Cardinality(grp(years[n])))]]

\* da.sel(time=da.time.dt.month.isin(months)).groupby('year').mean():
\* the observations whose calendar month is in months, grouped by their
\* calendar year, one arithmetic mean per group, groups in ascending order.
\* (An empty selection gives the empty series here; xarray may refuse to
\* group it, and then no series is produced at all.)
SelectedMonthsMean(da, months) ==
  LET sel    == {i \in DOMAIN da.time : da.time[i][2] \in Range(months)}
      years  == SortedInts({da.time[i][1] : i \in sel})
      grp(y) == {i \in sel : da.time[i][1] = y}
  IN [year   |-> years,
      values |-> [n \in DOMAIN years |->
                    Rat(SumOver(da.values, grp(years[n])), Cardinality(grp(years[n])))]]

\* season_dates: pd.Timestamp(year=int(year), month=months[0], day=1)
SeasonDates(years, months) == [n \in DOMAIN years |-> <<years[n], months[1]>>]

(***************************************************************************)
(* Ensemble statistics (update_plot, "Statistics" block).                  *)
(* ensemble_data is the list of the members' value arrays, last_year the   *)
(* year axis of the member aggregated last.  np.array() of rows of unequal *)
(* length has no 2-D shape and the reductions along axis 0 raise; rows of  *)
(* equal length are stacked by position, whatever years they stand for.    *)
(***************************************************************************)
Column(ensemble_data, n) == {ensemble_data[r][n] : r \in DOMAIN ensemble_data}

ColumnSeq(ensemble_data, n) == [r \in DOMAIN ensemble_data |-> ensemble_data[r][n]]

\* The statistics with the reductions taken without axis=0: the minimum and
\* the maximum of the whole array repeated for every date.
EnsembleStatisticsNoAxis(ensemble_data, last_year) ==
  IF Len(ensemble_data) = 0
  THEN [kind |-> "empty"]
  ELSE IF \E r \in DOMAIN ensemble_data : Len(ensemble_data[r]) # Len(ensemble_data[1])
  THEN [kind |-> "raise"]
  ELSE LET cols == DOMAIN ensemble_data[1]
           all  == UNION {Column(ensemble_data, n) : n \in cols}
       IN [kind  |-> "stats",
           year  |-> last_year,
           lower |-> [n \in cols |-> RatMin(all)],
           upper |-> [n \in cols |-> RatMax(all)],
           mean  |-> [n \in cols |->
                        RatDivInt(RatSumSeq(ColumnSeq(ensemble_data, n)), Len(ensemble_data))]]

EnsembleStatistics(ensemble_data, last_year) ==
  IF Len(ensemble_data) = 0
  THEN [kind |-> "empty"]
  ELSE IF \E r \in DOMAIN ensemble_data : Len(ensemble_data[r]) # Len(ensemble_data[1])
  THEN [kind |-> "raise"]
  ELSE LET cols == DOMAIN ensemble_data[1]
       IN [kind  |-> "stats",
           year  |-> last_year,
           lower |-> [n \in cols |-> RatMin(Column(ensemble_data, n))],
           upper |-> [n \in cols |-> RatMax(Column(ensemble_data, n))],
           mean  |-> [n \in cols |->
                        RatDivInt(RatSumSeq(ColumnSeq(ensemble_data, n)), Len(ensemble_data))]]

(***************************************************************************)
(* Series keys and the remote datasets.                                    *)
(***************************************************************************)
\* The positional arguments of download_and_extract_data:
\* (var_type, model, temp_reso, scenario, ensemble_member).
SeriesKey(var_type, model, scenario, ensemble_member) ==
  <<var_type, model, "Monthly", scenario, ensemble_member>>

VariableObjects == <<"SeaIceArea", "SeaIceExtent">>

AllKeys ==
  {SeriesKey(variable_mapping[v], m, s, e) :
     v \in Range(VariableObjects), m \in Range(ModelObjects),
     s \in Range(ssp_scenarios), e \in Range(EnsembleObjects)}

\* The monthly instants held by every remote file of the model runs.
RemoteTimes ==
  <<<<2015, 12>>, <<2016, 1>>, <<2016, 2>>, <<2016, 7>>,
    <<2016, 12>>, <<2017, 1>>, <<2017, 2>>, <<2017, 7>>>>

\* The content behind a key's URL: fixed per key, different between keys.
RemoteValue(key, i) ==
  i + 10 * IndexOf(EnsembleObjects, key[5]) + 20 * IndexOf(ModelObjects, key[2])
    + 40 * IndexOf(ssp_scenarios, key[4]) + (IF key[1] = "siextentn" THEN 3 ELSE 0)

RemoteArray(key) ==
  [time   |-> RemoteTimes,
   values |-> [i \in DOMAIN RemoteTimes |-> RemoteValue(key, i)],
   coords |-> {}]

\* The body of download_and_extract_data: xr.open_dataset(url) and the
\* extraction succeed (net_ok) and the dict is returned, or any exception is
\* caught and None is returned.
OpenAndExtract(key, net_ok) ==
  IF net_ok
  THEN [kind |-> "dict", da |-> RemoteArray(key), title |-> key[2], units |-> "1e6 km2"]
  ELSE None

(***************************************************************************)
(* functools.lru_cache(maxsize): the entries as a sequence, least recently *)
(* used first.  A hit moves the entry to the most recent end and returns   *)
(* the stored result without running the function; a miss runs the         *)
(* function, stores whatever it returned (None included) and, when the     *)
(* cache is full, drops the least recently used entry.                     *)
(***************************************************************************)
CachedKeys(c) == {c[i].key : i \in DOMAIN c}

CacheIndex(c, key) == CHOOSE i \in DOMAIN c : c[i].key = key

CacheResult(c, key) == c[CacheIndex(c, key)].result

RemoveAt(s, i) == SubSeq(s, 1, i - 1) \o SubSeq(s, i + 1, Len(s))

\* A hit that leaves the entry where it is (first in, first out).
CacheHitInPlace(c, key) ==
  [cache |-> c, result |-> CacheResult(c, key), fetched |-> FALSE, evicted |-> NoKey]

CacheHit(c, key) ==
  LET i == CacheIndex(c, key)
  IN [cache   |-> Append(RemoveAt(c, i), c[i]),
      result  |-> c[i].result,
      fetched |-> FALSE,
      evicted |-> NoKey]

CacheInsert(c, key, result) ==
  IF Len(c) >= maxsize
  THEN [cache |-> Append(Tail(c), [key |-> key, result |-> result]), evicted |-> Head(c).key]
  ELSE [cache |-> Append(c, [key |-> key, result |-> result]), evicted |-> NoKey]

CacheMiss(c, key, net_ok) ==
  LET result == OpenAndExtract(key, net_ok)
      ins    == CacheInsert(c, key, result)
  IN [cache   |-> ins.cache,
      result  |-> result,
      fetched |-> TRUE,
      evicted |-> ins.evicted]

\* The function without its decorator: every call runs the body.
download_undecorated(c, key, net_ok) ==
  [cache |-> c, result |-> OpenAndExtract(key, net_ok), fetched |-> TRUE, evicted |-> NoKey]

\* One call download_and_extract_data(*key) through the decorator.
download_and_extract_data(c, key, net_ok) ==
  IF key \in CachedKeys(c) THEN CacheHit(c, key) ELSE CacheMiss(c, key, net_ok)

\* The network outcomes to consider for a call: none matters on a hit.
NetOutcomes(c, key) == IF key \in CachedKeys(c) THEN {TRUE} ELSE {TRUE, FALSE}

(***************************************************************************)
(* State.                                                                  *)
(***************************************************************************)
VARIABLES
  \* the params of SeaIceAnalysis
  variable, models, scenarios, ensemble_members, season_months, show_band,
  \* the entries of download_and_extract_data's lru_cache
  cache,
  \* self.constant_dataset and the number of times it was opened
  constant_dataset, baseline_loads,
  \* self.figure, SeaIceAnalysis._band_renderers
  figure, band_renderers,
  \* position in update_plot, its local variables, the exception it raised
  pc, loc, error,
  \* history of the running update cycle and of the session
  hist,
  \* history of the calls made through the cache (cache specification)
  recency, stored, last_call,
  \* input and output of one seasonal aggregation (aggregator specification)
  agg,
  \* input and output of one ensemble combination (statistics specification)
  ens

appvars ==
  <<variable, models, scenarios, ensemble_members, season_months, show_band,
    constant_dataset, baseline_loads, figure, band_renderers, pc, loc, error, hist>>

callvars == <<recency, stored, last_call>>

vars == <<appvars, cache, callvars, agg, ens>>

(***************************************************************************)
(* Specification of the cache alone: any sequence of calls of the          *)
(* decorated function, on keys of the selection universe.                  *)
(***************************************************************************)
RECURSIVE SetToSeq(_)
SetToSeq(S) ==
  IF S = {} THEN <<>>
  ELSE LET x == CHOOSE y \in S : TRUE IN <<x>> \o SetToSeq(S \ {x})

\* The keys called in the cache specification: enough of them to overflow
\* the cache twice.
CallKeys ==
  LET all == SetToSeq(AllKeys)
      n   == IF maxsize + 2 <= Len(all) THEN maxsize + 2 ELSE Len(all)
  IN {all[i] : i \in 1..n}

CallInit ==
  /\ recency = <<>>
  /\ stored = [k \in CallKeys |-> Absent]
  /\ last_call = [key |-> NoKey]

\* A call of download_and_extract_data(*key).  recency lists every key ever
\* called, most recent first; stored[k] is what the last call for k returned,
\* until an eviction of k is reported; last_call records the call: whether
\* the function body ran (fetched), the result, what was stored for the key
\* before (prior) and the key's place in recency before (rank, 0 if new).
CallCached(key, net_ok) ==
  LET r == download_and_extract_data(cache, key, net_ok)
  IN /\ cache' = r.cache
     /\ recency' = <<key>> \o SelectSeq(recency, LAMBDA k : k # key)
     /\ stored' = [k \in CallKeys |->
                     IF k = key THEN r.result
                     ELSE IF k = r.evicted THEN Absent
                     ELSE stored[k]]
     /\ last_call' = [key     |-> key,
                      fetched |-> r.fetched,
                      result  |-> r.result,
                      evicted |-> r.evicted,
                      prior   |-> stored[key],
                      rank    |-> IndexOf(recency, key)]

Cache ==
  /\ \E key \in CallKeys : \E net_ok \in NetOutcomes(cache, key) : CallCached(key, net_ok)
  /\ UNCHANGED <<appvars, agg, ens>>

(***************************************************************************)
(* The OSISAF baseline.                                                    *)
(***************************************************************************)
\* The content of osisaf_nh_sia_monthly.nc.
OsisafRemote ==
  [time   |-> <<<<2015, 1>>, <<2015, 7>>, <<2015, 12>>, <<2016, 1>>, <<2016, 7>>>>,
   sia    |-> <<14, 8, 12, 13, 7>>,
   coords |-> {}]

\* The coordinates assigned on self.constant_dataset itself.
OsisafWithoutCopy(ds) == [stored |-> AssignCoords(ds), osisaf |-> AssignCoords(ds)]

\* osisaf = self.constant_dataset.copy(), then the year and month coordinates
\* are assigned on the copy: the stored dataset and the working copy.
OsisafWithCoords(ds) == [stored |-> ds, osisaf |-> AssignCoords(ds)]

\* osisaf['sia'].sel(time=osisaf.time.dt.month.isin(months)).groupby('year').mean()
OsisafSelectedMonthsMean(osisaf, months) ==
  SelectedMonthsMean([time |-> osisaf.time, values |-> osisaf.sia, coords |-> osisaf.coords],
                     months)

(***************************************************************************)
(* update_plot: loops and locals.                                          *)
(***************************************************************************)
\* The (model, scenario, ensemble_member) triples in the order of the three
\* nested for loops.
Combos(ms, ss, es) ==
  [i \in 1..(Len(ms) * Len(ss) * Len(es)) |->
     <<ms[((i - 1) \div (Len(ss) * Len(es))) + 1],
       ss[(((i - 1) \div Len(es)) % Len(ss)) + 1],
       es[((i - 1) % Len(es)) + 1]>>]

CurrentCombos == Combos(models, scenarios, ensemble_members)

\* model[0:10]
ModelPrefix10(model) ==
  CASE model = "NorESM2-LM_sea_ice"    -> "NorESM2-LM"
    [] model = "MRI-ESM2-0_sea_ice"    -> "MRI-ESM2-0"
    [] model = "MIROC6_sea_ice"        -> "MIROC6_sea"
    [] model = "EC-Earth3-Veg_sea_ice" -> "EC-Earth3-"
    [] model = "CanESM5_sea_ice"       -> "CanESM5_se"
    [] model = "ACCESS-CM2_sea_ice"    -> "ACCESS-CM2"

NoArray == [src |-> NoKey]

NoMean == [year |-> <<>>, values |-> <<>>]

\* The locals of update_plot when it is not running.
LocIdle ==
  [handler |-> "none", ci |-> 0, sj |-> 0, ij |-> 0, ensemble_member |-> "",
   data_info |-> None, da |-> NoArray, selected_months_mean |-> NoMean,
   ensemble_data |-> <<>>, used |-> <<>>, legend_items |-> <<>>,
   added_osisaf_legends |-> {}]

\* line = self.figure.line(self.constant_time, self.constant_values,
\*                         legend_label="Osisaf", ...); line.visible = False
OsisafHiddenLine == [kind |-> "line", label |-> <<"Osisaf">>, visible |-> FALSE]

HistIdle(h) == [h EXCEPT !.requested = {}, !.loaded = {}, !.failed = {}, !.stats = <<>>]

\* The figure kept as it is when update_plot starts.
UpdateKeep(fig) == [fig EXCEPT !.renderers = Append(@, OsisafHiddenLine)]

\* update_plot up to the for loops: the renderers and the legend are
\* emptied, the hidden OSISAF line is added, the loops start.
UpdateClear(fig) == [fig EXCEPT !.renderers = <<OsisafHiddenLine>>, !.legend = <<<<"Osisaf">>>>]

\* handler tells who called update_plot: the constructor ("init"), a param
\* watcher ("watcher"), the watcher fired by toggle_band_visibility's
\* assignment to show_band ("toggle"), or toggle_band_visibility's own call
\* after it ("second").
BeginUpdate(handler, ms, ss, es) ==
  /\ figure' = UpdateClear(figure)
  /\ loc' = [LocIdle EXCEPT !.handler = handler, !.ci = 1]
  /\ pc' = IF Len(Combos(ms, ss, es)) = 0 THEN "finish" ELSE "fetch"
  /\ hist' = [HistIdle(hist) EXCEPT
                !.cycle = @ + 1,
                !.changes = IF handler \in {"watcher", "toggle"} THEN @ + 1 ELSE @]
  /\ error' = None

\* Where an exception raised by update_plot leaves the program: it ends the
\* constructor (no application) or the callback (reported by
\* exception_handler, the session goes on).
AfterRaise == IF loc.handler = "init" THEN "crashed" ELSE "idle"

\* The next iteration after the body of the season loop, or after a
\* combination whose season loop is empty.
Advance(l) ==
  IF l.sj < Len(season_months)
  THEN [pc |-> "season", loc |-> [l EXCEPT !.sj = @ + 1]]
  ELSE IF l.ci < Len(CurrentCombos)
  THEN [pc |-> "fetch", loc |-> [l EXCEPT !.ci = @ + 1, !.sj = 0]]
  ELSE [pc |-> "finish", loc |-> l]

\* The array object da is the one held by the cached dict: an assignment on
\* it shows in the cache entry as long as the entry is there.
WithCoordsAssigned(c, key) ==
  [i \in DOMAIN c |->
     IF c[i].key = key /\ c[i].result.kind = "dict"
     THEN [c[i] EXCEPT !.result.da = AssignCoords(@)]
     ELSE c[i]]

\* figure.line(..., legend_label=label) puts the label in the legend unless
\* an item with that label is there already.
AddLegend(legend, label) == IF label \in Range(legend) THEN legend ELSE Append(legend, label)

RECURSIVE RemoveEach(_, _)
\* for band in bands: center.remove(band), a band that is not there skipped.
RemoveEach(center, bands) ==
  IF bands = <<>> THEN center
  ELSE LET i == IndexOf(center, Head(bands))
       IN RemoveEach(IF i = 0 THEN center ELSE RemoveAt(center, i), Tail(bands))

params == <<variable, models, scenarios, ensemble_members, season_months, show_band>>

LoopKey(member) ==
  LET combo == CurrentCombos[loc.ci]
  IN SeriesKey(variable_mapping[variable], combo[1], combo[2], member)

Requested(h, key, result) ==
  [h EXCEPT !.requested = @ \cup {key},
            !.loaded = IF result = None THEN @ ELSE @ \cup {key},
            !.failed = IF result = None THEN @ \cup {key} ELSE @]

(***************************************************************************)
(* update_plot, step by step.                                              *)
(***************************************************************************)
\* The head of the innermost for loop over the combinations: the cached
\* fetch, and the ValueError when it returned None.
FetchMember ==
  /\ pc = "fetch"
  /\ LET combo == CurrentCombos[loc.ci]
         key   == LoopKey(combo[3])
     IN \E net_ok \in NetOutcomes(cache, key) :
          LET r  == download_and_extract_data(cache, key, net_ok)
              l1 == [loc EXCEPT !.data_info = r.result, !.ensemble_member = combo[3]]
          IN /\ cache' = r.cache
             /\ hist' = Requested(hist, key, r.result)
             /\ IF r.result = None
                THEN /\ error' = [kind |-> "ValueError", model |-> ModelPrefix10(combo[1]),
                                  scenario |-> combo[2], ensemble_member |-> combo[3]]
                     /\ pc' = AfterRaise
                     /\ loc' = LocIdle
                ELSE LET nx == Advance([l1 EXCEPT !.da = [src |-> key, arr |-> r.result.da]])
                     IN /\ pc' = nx.pc
                        /\ loc' = nx.loc
                        /\ UNCHANGED error
  /\ UNCHANGED <<params, constant_dataset, baseline_loads, figure, band_renderers>>
  /\ UNCHANGED <<callvars, agg, ens>>

\* The body of the season loop up to the statistics block: the baseline and
\* the model series are aggregated over the season's months and their lines
\* are added to the figure.
SeasonLines ==
  /\ pc = "season"
  /\ LET combo    == CurrentCombos[loc.ci]
         season   == season_months[loc.sj]
         months   == season_to_months[season]
         bl       == OsisafWithCoords(constant_dataset)
         osi      == OsisafSelectedMonthsMean(bl.osisaf, months)
         arr      == AssignCoords(loc.da.arr)
         smm      == SelectedMonthsMean(arr, months)
         first    == season \notin loc.added_osisaf_legends
         osi_lbl  == <<"OSISAF", season>>
         osi_line == [kind |-> "line", label |-> osi_lbl, src |-> NoKey,
                      date |-> SeasonDates(osi.year, months), value |-> osi.values]
         lbl      == <<combo[1], combo[2], loc.ensemble_member, season>>
         point    == [kind |-> "line", label |-> lbl, src |-> loc.da.src,
                      date |-> SeasonDates(smm.year, months), value |-> smm.values]
     IN /\ constant_dataset' = bl.stored
        /\ cache' = WithCoordsAssigned(cache, loc.da.src)
        /\ figure' = [figure EXCEPT
                        !.renderers = @ \o (IF first THEN <<osi_line>> ELSE <<>>) \o <<point>>,
                        !.legend = AddLegend(IF first THEN AddLegend(@, osi_lbl) ELSE @, lbl)]
        /\ loc' = [loc EXCEPT
                     !.da.arr = arr,
                     !.selected_months_mean = smm,
                     !.legend_items = @ \o (IF first THEN <<osi_lbl>> ELSE <<>>) \o <<lbl>>,
                     !.added_osisaf_legends = @ \cup {season},
                     !.ensemble_data = <<>>,
                     !.used = <<>>,
                     !.ij = 1]
        /\ pc' = "stats"
  /\ UNCHANGED <<params, baseline_loads, band_renderers, error, hist>>
  /\ UNCHANGED <<callvars, agg, ens>>

\* One iteration of the statistics block's loop over the ensemble members:
\* the cached fetch, a member that could not be loaded skipped, the others
\* aggregated and collected.  The loop variable is update_plot's
\* ensemble_member, and da is update_plot's da.
StatsMember ==
  /\ pc = "stats"
  /\ LET e      == ensemble_members[loc.ij]
         key    == LoopKey(e)
         months == season_to_months[season_months[loc.sj]]
     IN \E net_ok \in NetOutcomes(cache, key) :
          LET r   == download_and_extract_data(cache, key, net_ok)
              l1  == [loc EXCEPT !.ensemble_member = e, !.data_info = r.result, !.ij = @ + 1]
              arr == AssignCoords(r.result.da)
              smm == SelectedMonthsMean(arr, months)
          IN /\ hist' = Requested(hist, key, r.result)
             /\ IF r.result = None
                THEN /\ cache' = r.cache
                     /\ loc' = l1
                ELSE /\ cache' = WithCoordsAssigned(r.cache, key)
                     /\ loc' = [l1 EXCEPT
                                  !.da = [src |-> key, arr |-> arr],
                                  !.selected_months_mean = smm,
                                  !.ensemble_data = Append(@, smm.values),
                                  !.used = Append(@, e)]
  /\ pc' = IF loc.ij = Len(ensemble_members) THEN "combine" ELSE "stats"
  /\ UNCHANGED <<params, constant_dataset, baseline_loads, figure, band_renderers, error>>
  /\ UNCHANGED <<callvars, agg, ens>>

\* The rest of the statistics block: min, max and mean across the collected
\* members, and the spread band and mean line added, or the tracked bands
\* removed, according to show_band.
CombineStatistics ==
  /\ pc = "combine"
  /\ LET combo  == CurrentCombos[loc.ci]
         season == season_months[loc.sj]
         months == season_to_months[season]
         st     == EnsembleStatistics(loc.ensemble_data, loc.selected_months_mean.year)
         dates  == SeasonDates(st.year, months)
         band   == [kind |-> "band", id |-> <<hist.cycle, Len(hist.stats) + 1>>,
                    model |-> combo[1], scenario |-> combo[2], season |-> season,
                    date |-> dates, lower |-> st.lower, upper |-> st.upper]
         mlbl   == <<combo[1], combo[2], "Mean">>
         mline  == [kind |-> "line", label |-> mlbl, src |-> NoKey,
                    date |-> dates, value |-> st.mean]
         nx     == Advance(loc)
     IN IF st.kind = "raise"
        THEN /\ error' = [kind |-> "ValueError", model |-> "", scenario |-> "",
                          ensemble_member |-> ""]
             /\ pc' = AfterRaise
             /\ loc' = LocIdle
             /\ UNCHANGED <<figure, band_renderers, hist>>
        ELSE /\ pc' = nx.pc
             /\ loc' = nx.loc
             /\ UNCHANGED error
             /\ IF st.kind = "empty"
                THEN UNCHANGED <<figure, band_renderers, hist>>
                ELSE /\ hist' = [hist EXCEPT
                                   !.stats = Append(@, [model |-> combo[1], scenario |-> combo[2],
                                                        season |-> season, members |-> loc.used,
                                                        plotted |-> show_band])]
                     /\ IF show_band
                        THEN /\ figure' = [figure EXCEPT
                                             !.center = Append(@, band),
                                             !.renderers = Append(@, mline),
                                             !.legend = AddLegend(@, mlbl)]
                             /\ band_renderers' = Append(band_renderers, band)
                        ELSE /\ figure' = [figure EXCEPT !.center = RemoveEach(@, band_renderers)]
                             /\ band_renderers' = <<>>
  /\ UNCHANGED <<params, cache, constant_dataset, baseline_loads>>
  /\ UNCHANGED <<callvars, agg, ens>>

\* After the loops: the legend is set from legend_items.
FinishUpdate ==
  /\ pc = "finish"
  /\ figure' = IF figure.renderers # <<>> THEN [figure EXCEPT !.legend = loc.legend_items]
               ELSE figure
  /\ pc' = IF loc.handler = "toggle" THEN "again" ELSE "idle"
  /\ loc' = LocIdle
  /\ UNCHANGED <<params, cache, constant_dataset, baseline_loads, band_renderers, error, hist>>
  /\ UNCHANGED <<callvars, agg, ens>>

(***************************************************************************)
(* What starts an update cycle.                                            *)
(***************************************************************************)
\* self.update_plot() at the end of __init__.
InitialUpdate ==
  /\ pc = "init"
  /\ BeginUpdate("init", models, scenarios, ensemble_members)
  /\ UNCHANGED <<params, cache, constant_dataset, baseline_loads, band_renderers>>
  /\ UNCHANGED <<callvars, agg, ens>>

CanChange == pc = "idle" /\ hist.changes < MaxChanges

Selections(objects, current) ==
  {SelectIn(objects, S) : S \in SUBSET Range(objects)} \ {current}

\* The watcher of update_plot (param.depends(..., watch=True)) on each param.
SetVariable ==
  /\ CanChange
  /\ \E v \in Range(VariableObjects) \ {variable} : variable' = v
  /\ BeginUpdate("watcher", models, scenarios, ensemble_members)
  /\ UNCHANGED <<models, scenarios, ensemble_members, season_months, show_band>>
  /\ UNCHANGED <<cache, constant_dataset, baseline_loads, band_renderers>>
  /\ UNCHANGED <<callvars, agg, ens>>

SetModels ==
  /\ CanChange
  /\ \E new \in Selections(ModelObjects, models) :
       /\ models' = new
       /\ BeginUpdate("watcher", new, scenarios, ensemble_members)
  /\ UNCHANGED <<variable, scenarios, ensemble_members, season_months, show_band>>
  /\ UNCHANGED <<cache, constant_dataset, baseline_loads, band_renderers>>
  /\ UNCHANGED <<callvars, agg, ens>>

SetScenarios ==
  /\ CanChange
  /\ \E new \in Selections(ssp_scenarios, scenarios) :
       /\ scenarios' = new
       /\ BeginUpdate("watcher", models, new, ensemble_members)
  /\ UNCHANGED <<variable, models, ensemble_members, season_months, show_band>>
  /\ UNCHANGED <<cache, constant_dataset, baseline_loads, band_renderers>>
  /\ UNCHANGED <<callvars, agg, ens>>

SetEnsembleMembers ==
  /\ CanChange
  /\ \E new \in Selections(EnsembleObjects, ensemble_members) :
       /\ ensemble_members' = new
       /\ BeginUpdate("watcher", models, scenarios, new)
  /\ UNCHANGED <<variable, models, scenarios, season_months, show_band>>
  /\ UNCHANGED <<cache, constant_dataset, baseline_loads, band_renderers>>
  /\ UNCHANGED <<callvars, agg, ens>>

SetSeasonMonths ==
  /\ CanChange
  /\ \E new \in Selections(SeasonObjects, season_months) : season_months' = new
  /\ BeginUpdate("watcher", models, scenarios, ensemble_members)
  /\ UNCHANGED <<variable, models, scenarios, ensemble_members, show_band>>
  /\ UNCHANGED <<cache, constant_dataset, baseline_loads, band_renderers>>
  /\ UNCHANGED <<callvars, agg, ens>>

\* color_scale_selector changes: the same selection is plotted again.
SetColorScale ==
  /\ CanChange
  /\ BeginUpdate("watcher", models, scenarios, ensemble_members)
  /\ UNCHANGED <<params, cache, constant_dataset, baseline_loads, band_renderers>>
  /\ UNCHANGED <<callvars, agg, ens>>

\* toggle_band_visibility: self.show_band = event.new fires the watcher ...
ToggleBand ==
  /\ CanChange
  /\ show_band' = ~show_band
  /\ BeginUpdate("toggle", models, scenarios, ensemble_members)
  /\ UNCHANGED <<variable, models, scenarios, ensemble_members, season_months>>
  /\ UNCHANGED <<cache, constant_dataset, baseline_loads, band_renderers>>
  /\ UNCHANGED <<callvars, agg, ens>>

\* ... and, when that update returned, self.update_plot() is called again.
SecondUpdate ==
  /\ pc = "again"
  /\ BeginUpdate("second", models, scenarios, ensemble_members)
  /\ UNCHANGED <<params, cache, constant_dataset, baseline_loads, band_renderers>>
  /\ UNCHANGED <<callvars, agg, ens>>

(***************************************************************************)
(* The application: the state reached in __init__ just before its call of  *)
(* update_plot, with the params at their defaults and the baseline loaded. *)
(***************************************************************************)
AppInit ==
  /\ variable = "SeaIceArea"
  /\ models = <<"NorESM2-LM_sea_ice">>
  /\ scenarios = <<"ssp126">>
  /\ ensemble_members = <<"r1i1p1f1">>
  /\ season_months = <<"DJF">>
  /\ show_band = FALSE
  /\ constant_dataset = OsisafRemote
  /\ baseline_loads = 1
  /\ figure = [renderers |-> <<>>, center |-> <<>>, legend |-> <<>>]
  /\ band_renderers = <<>>
  /\ pc = "init"
  /\ loc = LocIdle
  /\ error = None
  /\ hist = [cycle |-> 0, changes |-> 0, requested |-> {}, loaded |-> {}, failed |-> {},
             stats |-> <<>>]

AggIdle == agg = [pc |-> "off"]

EnsIdle == ens = [pc |-> "off"]

Init == AppInit /\ cache = <<>> /\ CallInit /\ AggIdle /\ EnsIdle

Next ==
  \/ InitialUpdate
  \/ FetchMember
  \/ SeasonLines
  \/ StatsMember
  \/ CombineStatistics
  \/ FinishUpdate
  \/ SetVariable
  \/ SetModels
  \/ SetScenarios
  \/ SetEnsembleMembers
  \/ SetSeasonMonths
  \/ SetColorScale
  \/ ToggleBand
  \/ SecondUpdate

Spec == Init /\ [][Next]_vars

(***************************************************************************)
(* The cache alone.                                                        *)
(***************************************************************************)
CacheNext == Cache

SpecCache == Init /\ [][CacheNext]_vars

(***************************************************************************)
(* Properties of the cache (SpecCache).                                    *)
(***************************************************************************)
Called == last_call.key # NoKey

Min(a, b) == IF a <= b THEN a ELSE b

\* C1: a call for a key whose previous call's result has not been evicted
\* since does not run the function body (no remote fetch) and returns that
\* stored result; a call for a key with nothing stored runs it once.
C1_SecondCallIsHit ==
  Called =>
    /\ last_call.prior # Absent => (~last_call.fetched /\ last_call.result = last_call.prior)
    /\ last_call.prior = Absent => last_call.fetched

C1_Witness == Called /\ last_call.prior # Absent /\ last_call.prior.kind = "dict" /\ ~last_call.fetched

\* C2: only successful fetches are cached: when the previous fetch for the
\* key failed, the next call with the key performs a new remote fetch.
C2_FailedFetchIsRetried == (Called /\ last_call.prior = None) => last_call.fetched

\* C5: the cache never holds more than maxsize entries, it holds exactly the
\* maxsize most recently called keys, and a call fetches exactly when its key
\* is new or maxsize other keys were called since its last call; the key
\* evicted by an insertion is the least recently used one.
C5_LruEviction ==
  /\ Len(cache) <= maxsize
  /\ CachedKeys(cache) = {recency[i] : i \in 1..Min(maxsize, Len(recency))}
  /\ Called => (last_call.fetched <=> (last_call.rank = 0 \/ last_call.rank > maxsize))
  /\ (Called /\ last_call.evicted # NoKey) =>
       /\ last_call.fetched
       /\ Len(recency) > maxsize
       /\ recency[maxsize + 1] = last_call.evicted

\* Keys A, B, ... fill the cache, one more key evicts A, and A is called
\* again: its call fetches a second time and evicts the then oldest key.
C5_Witness ==
  /\ Called
  /\ last_call.rank = maxsize + 1
  /\ last_call.fetched
  /\ last_call.evicted # NoKey

(***************************************************************************)
(* The seasonal aggregation alone: one raw series drawn from the monthly   *)
(* instants of NumYears years, aggregated over one season as update_plot   *)
(* does for a model array.                                                 *)
(***************************************************************************)
SampleMonths == {1, 2, 7, 12}

SampleYears == FirstYear..(FirstYear + NumYears - 1)

SampleInstants == {<<y, m>> : y \in SampleYears, m \in SampleMonths}

SampleValue(t) == (t[1] - FirstYear) * 12 + t[2]

RawSeries(T) ==
  LET time == SortedTimes(T)
  IN [time |-> time, values |-> [i \in DOMAIN time |-> SampleValue(time[i])], coords |-> {}]

AggInit ==
  \E T \in SUBSET SampleInstants : \E season \in Range(SeasonObjects) :
    agg = [pc |-> "in", da |-> RawSeries(T), season |-> season]

\* Lines 250-263 of update_plot for the array and the season drawn.
Aggregate ==
  /\ agg.pc = "in"
  /\ LET months == season_to_months[agg.season]
         arr    == AssignCoords(agg.da)
         smm    == SelectedMonthsMean(arr, months)
     IN agg' = [pc |-> "out", da |-> arr, season |-> agg.season,
                season_years |-> smm.year, season_values |-> smm.values,
                season_dates |-> SeasonDates(smm.year, months)]
  /\ UNCHANGED <<appvars, cache, callvars, ens>>

AggStart == AppInit /\ cache = <<>> /\ CallInit /\ AggInit /\ EnsIdle

AggNext == Aggregate

SpecAgg == AggStart /\ [][AggNext]_vars

(***************************************************************************)
(* The ensemble statistics alone: the aggregated series of up to           *)
(* MaxMembers loaded members, each on its own year axis, combined as the   *)
(* statistics block of update_plot does.                                   *)
(***************************************************************************)
MemberValue(r, y) == RatOfInt(10 + ((r * (y - FirstYear + 1)) % 4))

MemberSeries(r, Y) ==
  LET years == SortedInts(Y)
  IN [year |-> years, values |-> [n \in DOMAIN years |-> MemberValue(r, years[n])]]

MemberLists ==
  UNION {[1..n -> (SUBSET SampleYears) \ {{}}] : n \in 1..MaxMembers}

EnsInit ==
  \E axes \in MemberLists :
    ens = [pc |-> "in", members |-> [r \in DOMAIN axes |-> MemberSeries(r, axes[r])]]

\* Lines 348-371 of update_plot: the members' values collected in
\* ensemble_data, the statistics computed, the dates taken from the member
\* aggregated last.
Combine ==
  /\ ens.pc = "in"
  /\ LET ensemble_data == [r \in DOMAIN ens.members |-> ens.members[r].values]
         last          == ens.members[Len(ens.members)]
     IN ens' = [pc |-> "out", members |-> ens.members,
                out |-> EnsembleStatistics(ensemble_data, last.year)]
  /\ UNCHANGED <<appvars, cache, callvars, agg>>

EnsStart == AppInit /\ cache = <<>> /\ CallInit /\ AggIdle /\ EnsInit

EnsNext == Combine

SpecEns == EnsStart /\ [][EnsNext]_vars

(***************************************************************************)
(* Properties of the seasonal aggregation (SpecAgg).                       *)
(***************************************************************************)
\* The convention of grouping a winter under its December's year: January
\* and February belong to the group of the December before them.
DecemberYear(t) == IF t[2] = 12 THEN t[1] ELSE t[1] - 1

DjfByDecemberYear(da) ==
  LET sel    == {i \in DOMAIN da.time : da.time[i][2] \in {12, 1, 2}}
      years  == SortedInts({DecemberYear(da.time[i]) : i \in sel})
      grp(y) == {i \in sel : DecemberYear(da.time[i]) = y}
  IN [year   |-> years,
      values |-> [n \in DOMAIN years |->
                    Rat(SumOver(da.values, grp(years[n])), Cardinality(grp(years[n])))]]

\* Every January and February of the series follows a December of the series.
WintersStartInDecember(da) ==
  \A i \in DOMAIN da.time :
    da.time[i][2] \in {1, 2} => <<da.time[i][1] - 1, 12>> \in Range(da.time)

\* C7: over DJF the aggregated series is the one of the December's-year
\* convention: its year axis lists the Decembers' years and each value is
\* the mean of that December and the January and February after it (so
\* 2015-12, 2016-01, 2016-02, 2016-12, 2017-01, 2017-02 give 2015 and 2016).
C7_DjfGroupsByDecemberYear ==
  (agg.pc = "out" /\ agg.season = "DJF" /\ WintersStartInDecember(agg.da)) =>
    /\ agg.season_years = DjfByDecemberYear(agg.da).year
    /\ agg.season_values = DjfByDecemberYear(agg.da).values

\* C8: the aggregated year axis is exactly the set of years having an
\* observation in a month of the season, strictly ascending, and there is
\* one value per year of the axis.
C8_YearAxis ==
  agg.pc = "out" =>
    LET months     == Range(season_to_months[agg.season])
        qualifying == {agg.da.time[i][1] : i \in {j \in DOMAIN agg.da.time :
                                                    agg.da.time[j][2] \in months}}
    IN /\ Range(agg.season_years) = qualifying
       /\ \A n \in 1..(Len(agg.season_years) - 1) :
            agg.season_years[n] < agg.season_years[n + 1]
       /\ Len(agg.season_values) = Len(agg.season_years)
       /\ Len(agg.season_dates) = Len(agg.season_years)

\* A series aggregated to several years while one of its years, observed
\* only outside the season, is left out.
C8_Witness ==
  /\ agg.pc = "out"
  /\ Len(agg.season_years) >= 2
  /\ \E i \in DOMAIN agg.da.time : agg.da.time[i][1] \notin Range(agg.season_years)

(***************************************************************************)
(* Properties of the ensemble statistics (SpecEns).                        *)
(***************************************************************************)
CommonYears(members) ==
  {y \in SampleYears : \A r \in DOMAIN members : y \in Range(members[r].year)}

\* C9: the statistics are given on the intersection of the members' year
\* axes, and min, max and mean have the length of that axis.
C9_IntersectionAlignment ==
  ens.pc = "out" =>
    /\ ens.out.kind = "stats"
    /\ ens.out.year = SortedInts(CommonYears(ens.members))
    /\ Len(ens.out.lower) = Len(ens.out.year)
    /\ Len(ens.out.upper) = Len(ens.out.year)
    /\ Len(ens.out.mean) = Len(ens.out.year)

\* The statistics were combined from the series of one member.
SingleMember == ens.pc = "out" /\ Len(ens.members) = 1

Running == pc \in {"fetch", "season", "stats", "combine", "finish"}

KeyOf(model, scenario, member) ==
  SeriesKey(variable_mapping[variable], model, scenario, member)

ModelLines == {i \in DOMAIN figure.renderers : "src" \in DOMAIN figure.renderers[i]
                                               /\ figure.renderers[i].src # NoKey}

OsisafLines == {i \in DOMAIN figure.renderers :
                  /\ Len(figure.renderers[i].label) = 2
                  /\ figure.renderers[i].label[1] = "OSISAF"}

\* C3: when a fetch of the cycle failed, the cycle has ended with an error
\* naming the model, scenario and ensemble member of a failed fetch, and no
\* statistics combined in the cycle from fewer members than selected were
\* plotted (statistics computed but not plotted are not even counted).
C3_FailureAbortsWithoutPartialStatistics ==
  (hist.failed # {} /\ ~Running) =>
    /\ error.kind = "ValueError"
    /\ \E k \in hist.failed :
         /\ error.model = ModelPrefix10(k[2])
         /\ error.scenario = k[4]
         /\ error.ensemble_member = k[5]
    /\ \A i \in DOMAIN hist.stats :
         hist.stats[i].plotted => hist.stats[i].members = ensemble_members

C10_BaselineLoadedOnce ==
  /\ baseline_loads = 1
  /\ constant_dataset = OsisafRemote
  /\ \A i \in OsisafLines :
       LET months == season_to_months[figure.renderers[i].label[2]]
       IN figure.renderers[i].value =
            OsisafSelectedMonthsMean(AssignCoords(OsisafRemote), months).values

\* A baseline series aggregated in a cycle that followed parameter changes.
C10_Witness ==
  /\ hist.changes >= 2
  /\ pc = "idle"
  /\ OsisafLines # {}

\* C12: every entry of the fetch cache holds, unchanged, what the fetch of
\* its key stored: no step of an update cycle has altered a cached series.
C12_CachedSeriesNeverMutated ==
  \A i \in DOMAIN cache :
    cache[i].result = OpenAndExtract(cache[i].key, cache[i].result # None)

\* An update cycle has run to its end without raising.
Completed == pc \in {"idle", "again"} /\ error = None /\ hist.cycle >= 1

\* The lines of the figure under the label
\* '{model} - {scenario} ({ensemble_member}) {season}'.
LinesLabelled(model, scenario, member, season) ==
  {i \in ModelLines : figure.renderers[i].label = <<model, scenario, member, season>>}

\* C13: after a completed cycle, every selected model, scenario, ensemble
\* member and season has a line under its label, and every line under that
\* label carries the seasonal aggregate of the series fetched for that
\* model, scenario and member.
C13_LabelledLineCarriesOwnSeries ==
  Completed =>
    \A c \in Range(CurrentCombos) : \A n \in DOMAIN season_months :
      LET season == season_months[n]
          months == season_to_months[season]
          key    == KeyOf(c[1], c[2], c[3])
          lines  == LinesLabelled(c[1], c[2], c[3], season)
      IN /\ lines # {}
         /\ \A i \in lines :
              /\ figure.renderers[i].src = key
              /\ figure.renderers[i].value =
                   SelectedMonthsMean(AssignCoords(RemoteArray(key)), months).values

\* C14: after a completed cycle, with show_band false no band is attached
\* to the figure and none is tracked; with show_band true every attached
\* band was created in this cycle for a selected model, scenario and season.
C14_BandsReflectCurrentSelection ==
  Completed =>
    IF ~show_band
    THEN figure.center = <<>> /\ band_renderers = <<>>
    ELSE \A i \in DOMAIN figure.center :
           LET band == figure.center[i]
           IN /\ band.id[1] = hist.cycle
              /\ band.model \in Range(models)
              /\ band.scenario \in Range(scenarios)
              /\ band.season \in Range(season_months)

====
